---- MODULE Spec2Model ----
(***************************************************************************)
(* Conversation state machine (ChatInterface.js) and API gateway client    *)
(* (chatService.js) of the dual-db chatbot frontend.                       *)
(*                                                                         *)
(* Texts are sequences of tokens: a typed text is a sequence of            *)
(* characters, a fixed literal of the program is a one-token sequence.     *)
(* A React event handler runs to completion and React commits the          *)
(* resulting state before the next event is dispatched, so each handler    *)
(* (and each promise continuation) is one atomic action.                   *)
(***************************************************************************)
EXTENDS Naturals, Integers, Sequences, FiniteSets, Bags, TLC

VARIABLES
    messages,     \* useState messages: the ordered message log
    inputValue,   \* useState inputValue: pending input text
    isLoading,    \* useState isLoading
    now,          \* the wall clock read by Date.now(), as an offset from Epoch
    inflight,     \* bag of requests handed to axios and not yet settled
    chatPosts,    \* number of "API Request: POST /chat" lines on the console
    last,         \* the last handler or request completion that ran
    dataProp,     \* the data prop of one ResultsDisplay (undefined: none mounted)
    viewMode,     \* useState viewMode of that ResultsDisplay
    showRawData,  \* useState showRawData of that ResultsDisplay
    phist         \* its last two button clicks, each with the state it found

convVars == <<messages, inputValue, isLoading, now, inflight, chatPosts, last>>

presVars == <<dataProp, viewMode, showRawData, phist>>

vars == <<messages, inputValue, isLoading, now, inflight, chatPosts, last,
          dataProp, viewMode, showRawData, phist>>

(* ------------------------------ bounds --------------------------------- *)
MaxTurns == 2      \* accepted submits explored
MaxNow == 1        \* clock ticks explored
MaxProbes == 1     \* outstanding non-chat requests explored
Epoch == 1000      \* Date.now() at mount

(* ------------------------------ values --------------------------------- *)
Undefined == "undefined"

Whitespace == {" ", "\t", "\n"}

\* What the user can type into the textarea.
Typed == {<<>>, <<" ">>, <<" ", "h", "i">>}

\* The catalog of QuickQueries (one entry of it).
quickQueries == {<<"How many users do we have?">>}

conversationId == <<"default">>

Greeting == <<"Hello! I'm your AI assistant for querying Elasticsearch and PostgreSQL. Ask me anything about your data using natural language!">>

Apology == <<"Sorry, I encountered an error processing your request. Please try again.">>

UnreachableMsg == <<"Unable to connect to the server. Please make sure the backend is running.">>
ServerErrorMsg == <<"Server error occurred. Please try again.">>
NotFoundMsg == <<"API endpoint not found.">>

\* String.prototype.trim: strip leading and trailing whitespace.
RECURSIVE TrimStart(_)
TrimStart(s) ==
    IF s # <<>> /\ Head(s) \in Whitespace THEN TrimStart(Tail(s)) ELSE s

RECURSIVE TrimEnd(_)
TrimEnd(s) ==
    IF s # <<>> /\ s[Len(s)] \in Whitespace
    THEN TrimEnd(SubSeq(s, 1, Len(s) - 1))
    ELSE s

trim(s) == TrimEnd(TrimStart(s))

\* Date.now()
DateNow == Epoch + now

(* --------------------------- gateway client ---------------------------- *)
\* An error object: error.code, error.response?.status (0 when there is no
\* response) and error.message.
Err(code, status, message) == [code |-> code, status |-> status, message |-> message]

\* new Error(message): no code, no response.
NewError(message) == Err(Undefined, 0, message)

\* The failures the transport (axios) can reject a request with.
TransportErrors ==
    { Err("ECONNREFUSED", 0, <<"connect ECONNREFUSED 127.0.0.1:8000">>),
      Err("ERR_BAD_RESPONSE", 500, <<"Request failed with status code 500">>),
      Err("ERR_BAD_RESPONSE", 503, <<"Request failed with status code 503">>),
      Err("ERR_BAD_REQUEST", 404, <<"Request failed with status code 404">>),
      Err("ECONNABORTED", 0, <<"timeout of 30000ms exceeded">>) }

\* The bodies the backend answers with, per endpoint (spec section 6).
ChatBodies ==
    { [response |-> <<"I found 5 users in the database.">>,
       data |-> "Envelope1", query_info |-> "QueryInfo1"],
      [response |-> <<"Done.">>, data |-> Undefined, query_info |-> Undefined] }

Bodies(url) ==
    IF url = "/chat" THEN ChatBodies
    ELSE IF url = "/health" THEN {[status |-> "healthy"]}
    ELSE IF url = "/" THEN {[message |-> "API"]}
    ELSE {[indices |-> url]}

Fulfilled(body) == [ok |-> TRUE, response |-> [status |-> 200, data |-> body]]
Rejected(error) == [ok |-> FALSE, error |-> error]

\* The response interceptor's rejection handler.
onRejected(error) ==
    IF error.code = "ECONNREFUSED" THEN NewError(UnreachableMsg)
    ELSE IF error.status = 500 THEN NewError(ServerErrorMsg)
    ELSE IF error.status = 404 THEN NewError(NotFoundMsg)
    ELSE error

\* apiClient.interceptors.response: what `await this.apiClient.x(...)` settles
\* to, given what the transport settled to.
responseInterceptor(raw) ==
    IF raw.ok THEN raw ELSE Rejected(onRejected(raw.error))

Return(value) == [ok |-> TRUE, value |-> value]
Throw(error) == [ok |-> FALSE, error |-> error]

\* sendMessage, getHealth, getElasticsearchSchema, getPostgreSQLSchema:
\* return response.data, rethrow what the client rejected with.
ReturnData(settled) ==
    IF settled.ok THEN Return(settled.response.data) ELSE Throw(settled.error)

sendMessage(raw) == ReturnData(responseInterceptor(raw))
getHealth(raw) == ReturnData(responseInterceptor(raw))
getElasticsearchSchema(raw) == ReturnData(responseInterceptor(raw))
getPostgreSQLSchema(raw) == ReturnData(responseInterceptor(raw))

\* A variant whose catch block rethrows.
checkBackendAvailabilityRethrowing(raw) ==
    IF responseInterceptor(raw).ok THEN Return(TRUE) ELSE Throw(responseInterceptor(raw).error)

checkBackendAvailability(raw) ==
    IF responseInterceptor(raw).ok THEN Return(TRUE) ELSE Return(FALSE)

\* The request each method of ChatService hands to the client.
Request(fn, method, url, data) == [fn |-> fn, method |-> method, url |-> url, data |-> data]

ChatRequest(message, cid) == Request("sendMessage", "POST", "/chat", <<message, cid>>)

ProbeRequests ==
    { Request("getHealth", "GET", "/health", <<>>),
      Request("getElasticsearchSchema", "GET", "/schema/elasticsearch", <<>>),
      Request("getPostgreSQLSchema", "GET", "/schema/postgresql", <<>>),
      Request("checkBackendAvailability", "GET", "/", <<>>) }

\* What the method that issued req completes with.
Completion(req, raw) ==
    IF req.fn = "sendMessage" THEN sendMessage(raw)
    ELSE IF req.fn = "getHealth" THEN getHealth(raw)
    ELSE IF req.fn = "getElasticsearchSchema" THEN getElasticsearchSchema(raw)
    ELSE IF req.fn = "getPostgreSQLSchema" THEN getPostgreSQLSchema(raw)
    ELSE checkBackendAvailability(raw)

ChatInFlight == {r \in BagToSet(inflight) : r.url = "/chat"}
ProbesInFlight == {r \in BagToSet(inflight) : r.url # "/chat"}

\* Number of outstanding chatService.sendMessage calls.
RECURSIVE Copies(_)
Copies(S) ==
    IF S = {} THEN 0
    ELSE LET r == CHOOSE x \in S : TRUE IN CopiesIn(r, inflight) + Copies(S \ {r})

OutstandingChat == Copies(ChatInFlight)
OutstandingProbes == Copies(ProbesInFlight)

(* ----------------------- conversation state machine -------------------- *)
Message(id, type, content, data, queryInfo, error) ==
    [id |-> id, type |-> type, content |-> content, data |-> data,
     queryInfo |-> queryInfo, error |-> error]

\* A field the object literal does not set reads as undefined; `error`
\* unset is falsy and is modelled as FALSE.
InitialMessages == <<Message(1, "bot", Greeting, Undefined, Undefined, FALSE)>>

Init ==
    /\ messages = InitialMessages
    /\ inputValue = <<>>
    /\ isLoading = FALSE
    /\ now = 0
    /\ inflight = EmptyBag
    /\ chatPosts = 0
    /\ last = [op |-> "mount"]
    /\ dataProp = [t |-> "undefined"]
    /\ viewMode = "summary"
    /\ showRawData = FALSE
    /\ phist = <<>>

\* Variants of the early return: one that forgets the loading flag, one that
\* tests the input without trimming it.
RejectsIgnoringLoading(input, loading) == trim(input) = <<>>

RejectsUntrimmed(input, loading) == input = <<>> \/ loading

\* The early return of handleSendMessage.
Rejects(input, loading) == trim(input) = <<>> \/ loading

UserTurns == Cardinality({i \in 1..Len(messages) : messages[i].type = "user"})

\* A variant that sends the trimmed input.
handleSendMessageTrimming ==
    IF Rejects(inputValue, isLoading)
    THEN /\ last' = [op |-> "handleSendMessage", accepted |-> FALSE]
         /\ UNCHANGED <<messages, inputValue, isLoading, now, inflight, chatPosts, presVars>>
    ELSE /\ UserTurns < MaxTurns
         /\ messages' = Append(messages,
                 Message(DateNow, "user", inputValue, Undefined, Undefined, FALSE))
         /\ inputValue' = <<>>
         /\ isLoading' = TRUE
         /\ inflight' = inflight (+) SetToBag({ChatRequest(trim(inputValue), conversationId)})
         /\ chatPosts' = chatPosts + 1
         /\ last' = [op |-> "handleSendMessage", accepted |-> TRUE]
         /\ UNCHANGED <<now, presVars>>

\* handleSendMessage up to its await (button click, or Enter through
\* handleKeyPress).
handleSendMessage ==
    IF Rejects(inputValue, isLoading)
    THEN /\ last' = [op |-> "handleSendMessage", accepted |-> FALSE]
         /\ UNCHANGED <<messages, inputValue, isLoading, now, inflight, chatPosts, presVars>>
    ELSE /\ UserTurns < MaxTurns
         /\ messages' = Append(messages,
                 Message(DateNow, "user", inputValue, Undefined, Undefined, FALSE))
         /\ inputValue' = <<>>
         /\ isLoading' = TRUE
         /\ inflight' = inflight (+) SetToBag({ChatRequest(inputValue, conversationId)})
         /\ chatPosts' = chatPosts + 1
         /\ last' = [op |-> "handleSendMessage", accepted |-> TRUE]
         /\ UNCHANGED <<now, presVars>>

\* handleKeyPress: Enter without Shift submits; any other key is left to the
\* textarea. A disabled textarea receives no key events.
Keys == {"Enter", "a"}

handleKeyPress(key, shiftKey) ==
    /\ ~isLoading
    /\ IF key = "Enter" /\ ~shiftKey THEN handleSendMessage ELSE UNCHANGED vars

KeyPress == \E key \in Keys : \E shiftKey \in BOOLEAN : handleKeyPress(key, shiftKey)

\* Variants of the continuation: one that shows the error's message, one that
\* drops the query info, one that clears the loading flag in the try block only.
ResumeShowingError(result) ==
    /\ messages' = Append(messages,
            IF result.ok
            THEN Message(DateNow + 1, "bot", result.value.response,
                         result.value.data, result.value.query_info, FALSE)
            ELSE Message(DateNow + 1, "bot", result.error.message, Undefined, Undefined, TRUE))
    /\ isLoading' = FALSE
    /\ UNCHANGED inputValue

ResumeDroppingQueryInfo(result) ==
    /\ messages' = Append(messages,
            IF result.ok
            THEN Message(DateNow + 1, "bot", result.value.response,
                         result.value.data, Undefined, FALSE)
            ELSE Message(DateNow + 1, "bot", Apology, Undefined, Undefined, TRUE))
    /\ isLoading' = FALSE
    /\ UNCHANGED inputValue

ResumeWithoutFinally(result) ==
    /\ messages' = Append(messages,
            IF result.ok
            THEN Message(DateNow + 1, "bot", result.value.response,
                         result.value.data, result.value.query_info, FALSE)
            ELSE Message(DateNow + 1, "bot", Apology, Undefined, Undefined, TRUE))
    /\ isLoading' = (isLoading /\ ~result.ok)
    /\ UNCHANGED inputValue

\* A variant that puts the reply in the place of the pending user message.
ResumeReplacingPending(result) ==
    /\ messages' = [messages EXCEPT ![Len(messages)] =
            IF result.ok
            THEN Message(DateNow + 1, "bot", result.value.response,
                         result.value.data, result.value.query_info, FALSE)
            ELSE Message(DateNow + 1, "bot", Apology, Undefined, Undefined, TRUE)]
    /\ isLoading' = FALSE
    /\ UNCHANGED inputValue

\* handleSendMessage after its await: try / catch / finally.
ResumeSendMessage(result) ==
    /\ messages' = Append(messages,
            IF result.ok
            THEN Message(DateNow + 1, "bot", result.value.response,
                         result.value.data, result.value.query_info, FALSE)
            ELSE Message(DateNow + 1, "bot", Apology, Undefined, Undefined, TRUE))
    /\ isLoading' = FALSE
    /\ UNCHANGED inputValue

\* A variant that sends a failed chat request once more before giving up.
SettleChatRetrying(req, raw) ==
    /\ BagIn(req, inflight)
    /\ req.fn = "sendMessage"
    /\ IF ~raw.ok /\ chatPosts <= UserTurns
       THEN /\ chatPosts' = chatPosts + 1
            /\ last' = [op |-> "retry", req |-> req]
            /\ UNCHANGED <<messages, inputValue, isLoading, now, inflight, presVars>>
       ELSE /\ inflight' = inflight (-) SetToBag({req})
            /\ ResumeSendMessage(Completion(req, raw))
            /\ last' = [op |-> "settle", req |-> req, raw |-> raw,
                        result |-> Completion(req, raw)]
            /\ UNCHANGED <<now, chatPosts, presVars>>

\* The chat request settles and handleSendMessage resumes.
SettleChat(req, raw) ==
    /\ BagIn(req, inflight)
    /\ req.fn = "sendMessage"
    /\ inflight' = inflight (-) SetToBag({req})
    /\ ResumeSendMessage(Completion(req, raw))
    /\ last' = [op |-> "settle", req |-> req, raw |-> raw, result |-> Completion(req, raw)]
    /\ UNCHANGED <<now, chatPosts, presVars>>

ChatSucceeds == \E req \in BagToSet(inflight) : \E b \in Bodies(req.url) :
    SettleChat(req, Fulfilled(b))

ChatFails == \E req \in BagToSet(inflight) : \E e \in TransportErrors :
    SettleChat(req, Rejected(e))

\* A variant that also re-enables the input.
handleQuickQueryEnabling(query) ==
    /\ inputValue' = query
    /\ isLoading' = FALSE
    /\ last' = [op |-> "handleQuickQuery"]
    /\ UNCHANGED <<messages, now, inflight, chatPosts, presVars>>

\* handleQuickQuery
handleQuickQuery(query) ==
    /\ inputValue' = query
    /\ last' = [op |-> "handleQuickQuery"]
    /\ UNCHANGED <<messages, isLoading, now, inflight, chatPosts, presVars>>

QuickQuery == \E q \in quickQueries : handleQuickQuery(q)

\* The textarea's onChange; the textarea is disabled while isLoading.
onChange(value) ==
    /\ ~isLoading
    /\ inputValue' = value
    /\ last' = [op |-> "onChange"]
    /\ UNCHANGED <<messages, isLoading, now, inflight, chatPosts, presVars>>

Change == \E v \in Typed : onChange(v)

\* A caller invokes one of the other methods of chatService.
CallProbe == \E req \in ProbeRequests :
    /\ OutstandingProbes < MaxProbes
    /\ inflight' = inflight (+) SetToBag({req})
    /\ last' = [op |-> "call", req |-> req]
    /\ UNCHANGED <<messages, inputValue, isLoading, now, chatPosts, presVars>>

SettleProbe(req, raw) ==
    /\ BagIn(req, inflight)
    /\ req.fn # "sendMessage"
    /\ inflight' = inflight (-) SetToBag({req})
    /\ last' = [op |-> "settle", req |-> req, raw |-> raw, result |-> Completion(req, raw)]
    /\ UNCHANGED <<messages, inputValue, isLoading, now, chatPosts, presVars>>

ProbeSucceeds == \E req \in BagToSet(inflight) : \E b \in Bodies(req.url) :
    SettleProbe(req, Fulfilled(b))

ProbeFails == \E req \in BagToSet(inflight) : \E e \in TransportErrors :
    SettleProbe(req, Rejected(e))

\* Time passes.
Tick ==
    /\ now < MaxNow
    /\ now' = now + 1
    /\ UNCHANGED <<messages, inputValue, isLoading, inflight, chatPosts, last, presVars>>

Next ==
    \/ handleSendMessage
    \/ KeyPress
    \/ ChatSucceeds
    \/ ChatFails
    \/ QuickQuery
    \/ Change
    \/ Tick

\* The conversation as the application runs it: ChatInterface is the only
\* caller of chatService, and it calls sendMessage only.
Spec == Init /\ [][Next]_vars

\* The gateway client under any caller: the conversation together with
\* callers of the health, schema and availability methods.
GatewayNext ==
    \/ handleSendMessage
    \/ KeyPress
    \/ ChatSucceeds
    \/ ChatFails
    \/ QuickQuery
    \/ CallProbe
    \/ ProbeSucceeds
    \/ ProbeFails

GatewaySpec == Init /\ [][GatewayNext]_vars

\* The transport settles every request: with a response, with a failure, or
\* with the timeout failure once the configured timeout has passed.
FairSpec == Spec /\ WF_vars(ChatSucceeds \/ ChatFails)

(* ------------------------------ JSON values ---------------------------- *)
\* A JSON value carries its JavaScript type; a string is the sequence of its
\* characters, an object the sequence of its <<key, value>> entries in the
\* order Object.keys gives them.
Undef == [t |-> "undefined"]
Null == [t |-> "null"]
Num(n) == [t |-> "number", v |-> n]
Str(s) == [t |-> "string", v |-> s]
Bool(b) == [t |-> "boolean", v |-> b]
Arr(items) == [t |-> "array", v |-> items]
Obj(entries) == [t |-> "object", v |-> entries]

typeof(x) == IF x.t \in {"null", "array"} THEN "object" ELSE x.t

\* ToBoolean
Truthy(x) ==
    CASE x.t \in {"undefined", "null"} -> FALSE
      [] x.t = "number" -> x.v # 0
      [] x.t = "string" -> x.v # <<>>
      [] x.t = "boolean" -> x.v
      [] OTHER -> TRUE

\* Object.keys(o) of an object
ObjectKeys(o) == [i \in 1..Len(o.v) |-> o.v[i][1]]

\* o[key]: undefined when o has no such property
Get(o, key) ==
    IF o.t # "object" THEN Undef
    ELSE LET at == {i \in 1..Len(o.v) : o.v[i][1] = key}
         IN  IF at = {} THEN Undef ELSE o.v[CHOOSE i \in at : TRUE][2]

\* x.length > 0, which is false when x has no length
HasElements(x) == x.t \in {"array", "string"} /\ Len(x.v) > 0

\* String.prototype.includes and startsWith
Includes(s, sub) == \E i \in 0..(Len(s) - Len(sub)) : SubSeq(s, i + 1, i + Len(sub)) = sub

StartsWith(s, prefix) == Len(s) >= Len(prefix) /\ SubSeq(s, 1, Len(prefix)) = prefix

RECURSIVE Concat(_)
Concat(ss) == IF ss = <<>> THEN <<>> ELSE Head(ss) \o Concat(Tail(ss))

RECURSIVE Join(_, _)
Join(ss, sep) ==
    IF ss = <<>> THEN <<>>
    ELSE IF Len(ss) = 1 THEN ss[1]
    ELSE ss[1] \o sep \o Join(Tail(ss), sep)

DigitChars == <<"0", "1", "2", "3", "4", "5", "6", "7", "8", "9">>

RECURSIVE Digits(_)
Digits(n) ==
    IF n < 10 THEN <<DigitChars[n + 1]>> ELSE Digits(n \div 10) \o <<DigitChars[(n % 10) + 1]>>

RECURSIVE Grouped(_)
Grouped(ds) ==
    IF Len(ds) <= 3 THEN ds
    ELSE Grouped(SubSeq(ds, 1, Len(ds) - 3)) \o <<",">> \o SubSeq(ds, Len(ds) - 2, Len(ds))

\* Number.prototype.toString and toLocaleString (en-US) of an integer
NumberToString(n) == IF n < 0 THEN <<"-">> \o Digits(0 - n) ELSE Digits(n)

NumberToLocaleString(n) ==
    IF n < 0 THEN <<"-">> \o Grouped(Digits(0 - n)) ELSE Grouped(Digits(n))

\* value.toString() of a value that is neither null nor undefined
RECURSIVE toString(_)
toString(x) ==
    CASE x.t = "number" -> NumberToString(x.v)
      [] x.t = "string" -> x.v
      [] x.t = "boolean" -> IF x.v THEN <<"t", "r", "u", "e">> ELSE <<"f", "a", "l", "s", "e">>
      [] x.t = "array" ->
            Join([i \in 1..Len(x.v) |->
                    IF x.v[i].t \in {"null", "undefined"} THEN <<>> ELSE toString(x.v[i])],
                 <<",">>)
      [] OTHER -> <<"[", "o", "b", "j", "e", "c", "t", " ", "O", "b", "j", "e", "c", "t", "]">>

\* value.toLocaleString(): grouping for a number, toString() otherwise
toLocaleString(x) == IF x.t = "number" THEN NumberToLocaleString(x.v) ELSE toString(x)

DigitValue(c) == CHOOSE d \in 0..9 : DigitChars[d + 1] = c

IsDigits(s) == \A i \in 1..Len(s) : \E d \in 1..10 : DigitChars[d] = s[i]

RECURSIVE ToNumber(_)
ToNumber(ds) ==
    IF ds = <<>> THEN 0 ELSE 10 * ToNumber(SubSeq(ds, 1, Len(ds) - 1)) + DigitValue(ds[Len(ds)])

\* new Date(s) is a valid date: s has the date-time form YYYY-MM-DDTHH:mm:ssZ.
\* (The strings of the model either have this form or hold no digit at all;
\* every engine gives Invalid Date for the latter.)
IsValidDate(s) ==
    /\ Len(s) = 20
    /\ s[5] = "-" /\ s[8] = "-" /\ s[11] = "T" /\ s[14] = ":" /\ s[17] = ":" /\ s[20] = "Z"
    /\ IsDigits(SubSeq(s, 1, 4)) /\ IsDigits(SubSeq(s, 6, 7)) /\ IsDigits(SubSeq(s, 9, 10))
    /\ IsDigits(SubSeq(s, 12, 13)) /\ IsDigits(SubSeq(s, 15, 16)) /\ IsDigits(SubSeq(s, 18, 19))
    /\ ToNumber(SubSeq(s, 6, 7)) \in 1..12
    /\ ToNumber(SubSeq(s, 9, 10)) \in 1..28
    /\ ToNumber(SubSeq(s, 12, 13)) \in 0..23
    /\ ToNumber(SubSeq(s, 15, 16)) \in 0..59
    /\ ToNumber(SubSeq(s, 18, 19)) \in 0..59

InvalidDate == <<"I", "n", "v", "a", "l", "i", "d", " ", "D", "a", "t", "e">>

\* new Date(s).toLocaleDateString(), in the en-US locale and the UTC zone:
\* M/D/YYYY, and "Invalid Date" (no exception) for an invalid date.
toLocaleDateString(s) ==
    IF IsValidDate(s)
    THEN Digits(ToNumber(SubSeq(s, 6, 7))) \o <<"/">> \o Digits(ToNumber(SubSeq(s, 9, 10)))
            \o <<"/">> \o SubSeq(s, 1, 4)
    ELSE InvalidDate

(* ------------------------------- presenter ----------------------------- *)
k_price == <<"p", "r", "i", "c", "e">>
k_salary == <<"s", "a", "l", "a", "r", "y">>

TruncateAt == 50

\* formatCellValue; the try block of its date branch never throws.
formatCellValue(value, column) ==
    IF value.t \in {"null", "undefined"} THEN <<"-">>
    ELSE IF typeof(value) = "string" /\ Includes(value.v, <<"T">>) /\ Includes(value.v, <<"Z">>)
    THEN toLocaleDateString(value.v)
    ELSE IF (typeof(value) = "number" /\ Includes(column, k_price)) \/ Includes(column, k_salary)
    THEN <<"$">> \o toLocaleString(value)
    ELSE IF typeof(value) = "string" /\ Len(value.v) > TruncateAt
    THEN SubSeq(value.v, 1, TruncateAt) \o <<".", ".", ".">>
    ELSE toString(value)

\* The property names the presenter reads.
k_total_results == <<"t", "o", "t", "a", "l", "_", "r", "e", "s", "u", "l", "t", "s">>
k_sources == <<"s", "o", "u", "r", "c", "e", "s">>
k_metadata == <<"m", "e", "t", "a", "d", "a", "t", "a">>
k_processing_time == <<"p", "r", "o", "c", "e", "s", "s", "i", "n", "g", "_", "t", "i", "m", "e">>
k_summary == <<"s", "u", "m", "m", "a", "r", "y">>
k_aggregations == <<"a", "g", "g", "r", "e", "g", "a", "t", "i", "o", "n", "s">>
k_results == <<"r", "e", "s", "u", "l", "t", "s">>
k_timeline == <<"t", "i", "m", "e", "l", "i", "n", "e">>
k_date == <<"d", "a", "t", "e">>
k_count == <<"c", "o", "u", "n", "t">>
k_items == <<"i", "t", "e", "m", "s">>
k_key == <<"k", "e", "y">>
k_amount == <<"a", "m", "o", "u", "n", "t">>
k_time == <<"t", "i", "m", "e">>
k_id == <<"i", "d">>

RowLimit == 10
ColumnLimit == 6
BucketLimit == 5
SampleLimit == 2
SampleLength == 100

Spaces(n) == [i \in 1..n |-> " "]

\* Object.entries(x): the entries of an object, the indexed elements of an
\* array or a string, none for a number or a boolean. (It throws for null and
\* undefined: see the Throws predicates.)
ObjectEntries(x) ==
    CASE x.t = "object" -> x.v
      [] x.t = "array" -> [i \in 1..Len(x.v) |-> <<Digits(i - 1), x.v[i]>>]
      [] x.t = "string" -> [i \in 1..Len(x.v) |-> <<Digits(i - 1), Str(<<x.v[i]>>)>>]
      [] OTHER -> <<>>

Nullish(x) == x.t \in {"null", "undefined"}

\* JSON.stringify(x, null, gap); gap = 0 is JSON.stringify(x).
Quoted(str) ==
    <<"\"">> \o Concat([i \in 1..Len(str) |->
                  IF str[i] \in {"\"", "\\"} THEN <<"\\", str[i]>> ELSE <<str[i]>>]) \o <<"\"">>

RECURSIVE Stringify(_, _, _)
Stringify(x, gap, indent) ==
    LET inner == indent + gap
        break(n) == IF gap = 0 THEN <<>> ELSE <<"\n">> \o Spaces(n)
        colon == IF gap = 0 THEN <<":">> ELSE <<":", " ">>
    IN  CASE x.t = "number" -> NumberToString(x.v)
          [] x.t = "string" -> Quoted(x.v)
          [] x.t = "boolean" -> toString(x)
          [] x.t \in {"null", "undefined"} -> <<"n", "u", "l", "l">>
          [] x.t = "array" ->
                IF x.v = <<>> THEN <<"[", "]">>
                ELSE <<"[">> \o break(inner)
                        \o Join([i \in 1..Len(x.v) |-> Stringify(x.v[i], gap, inner)],
                                <<",">> \o break(inner))
                        \o break(indent) \o <<"]">>
          [] OTHER ->
                LET kept == SelectSeq(x.v, LAMBDA e : e[2].t # "undefined")
                IN  IF kept = <<>> THEN <<"{", "}">>
                    ELSE <<"{">> \o break(inner)
                            \o Join([i \in 1..Len(kept) |->
                                        Quoted(kept[i][1]) \o colon
                                            \o Stringify(kept[i][2], gap, inner)],
                                    <<",">> \o break(inner))
                            \o break(indent) \o <<"}">>

\* What React shows for {x}: text for a number or a string, nothing for
\* null, undefined and booleans, the children of an array. (An object is not
\* a valid child: see ChildThrows.)
RECURSIVE ChildText(_)
ChildText(x) ==
    CASE x.t = "number" -> NumberToString(x.v)
      [] x.t = "string" -> x.v
      [] x.t = "array" -> Concat([i \in 1..Len(x.v) |-> ChildText(x.v[i])])
      [] OTHER -> <<>>

RECURSIVE ChildThrows(_)
ChildThrows(x) ==
    \/ x.t = "object"
    \/ x.t = "array" /\ \E i \in 1..Len(x.v) : ChildThrows(x.v[i])

LowerCase == <<"a", "b", "c", "d", "e", "f", "g", "h", "i", "j", "k", "l", "m",
               "n", "o", "p", "q", "r", "s", "t", "u", "v", "w", "x", "y", "z">>
UpperCase == <<"A", "B", "C", "D", "E", "F", "G", "H", "I", "J", "K", "L", "M",
               "N", "O", "P", "Q", "R", "S", "T", "U", "V", "W", "X", "Y", "Z">>

toUpperCase(c) ==
    IF \E i \in 1..26 : LowerCase[i] = c
    THEN UpperCase[CHOOSE i \in 1..26 : LowerCase[i] = c]
    ELSE c

\* \w of a regular expression
IsWordChar(c) ==
    \/ c = "_"
    \/ \E i \in 1..26 : LowerCase[i] = c \/ UpperCase[i] = c
    \/ \E i \in 1..10 : DigitChars[i] = c

\* formatColumnName and formatAggregationLabel: underscores to spaces, then
\* the first character of every word in upper case.
formatColumnName(col) ==
    LET spaced == [i \in 1..Len(col) |-> IF col[i] = "_" THEN " " ELSE col[i]]
    IN  [i \in 1..Len(spaced) |->
            IF IsWordChar(spaced[i]) /\ (i = 1 \/ ~IsWordChar(spaced[i - 1]))
            THEN toUpperCase(spaced[i])
            ELSE spaced[i]]

formatAggregationLabel(key) == formatColumnName(key)

getColumnClass(column) ==
    IF Includes(column, k_price) \/ Includes(column, k_salary) \/ Includes(column, k_amount)
    THEN "currency"
    ELSE IF Includes(column, k_date) \/ Includes(column, k_time) THEN "date"
    ELSE IF Includes(column, k_id) THEN "id"
    ELSE ""

\* formatValue
formatValue(value) ==
    IF typeof(value) = "number" THEN NumberToLocaleString(value.v) ELSE ChildText(value)

\* The keys added to the Set, in insertion order without repetition.
RECURSIVE Distinct(_, _)
Distinct(ss, seen) ==
    IF ss = <<>> THEN <<>>
    ELSE IF Head(ss) \in seen THEN Distinct(Tail(ss), seen)
    ELSE <<Head(ss)>> \o Distinct(Tail(ss), seen \cup {Head(ss)})

Take(ss, n) == SubSeq(ss, 1, IF Len(ss) < n THEN Len(ss) ELSE n)

\* getTableColumns
getTableColumns(results) ==
    LET keysOf(row) == LET es == ObjectEntries(row) IN [i \in 1..Len(es) |-> es[i][1]]
        public(ks) == SelectSeq(ks, LAMBDA key : ~StartsWith(key, <<"_">>))
        allKeys == Distinct(Concat([r \in 1..Len(results) |-> public(keysOf(results[r]))]), {})
    IN  Take(allKeys, ColumnLimit)

\* A variant that shows every bucket.
renderAggregationsUnsliced(d) ==
    LET sources == ObjectEntries(Get(d, k_aggregations))
        item(e) ==
            IF e[2].t = "array"
            THEN [label |-> formatAggregationLabel(e[1]),
                  buckets |-> [b \in 1..Len(e[2].v) |->
                                  <<ChildText(Get(e[2].v[b], k_key)),
                                    ChildText(Get(e[2].v[b], k_count))>>],
                  value |-> <<>>]
            ELSE [label |-> formatAggregationLabel(e[1]),
                  buckets |-> <<>>,
                  value |-> formatValue(e[2])]
        source(e) ==
            LET metrics == ObjectEntries(e[2])
            IN  [source |-> IF e[1] = <<>> THEN <<>>
                            ELSE <<toUpperCase(e[1][1])>> \o Tail(e[1]),
                 items |-> [m \in 1..Len(metrics) |-> item(metrics[m])]]
    IN  [i \in 1..Len(sources) |-> source(sources[i])]

\* renderAggregations: per source its name with the first letter in upper
\* case, per metric its label and either the first buckets or the value.
renderAggregations(d) ==
    LET sources == ObjectEntries(Get(d, k_aggregations))
        item(e) ==
            IF e[2].t = "array"
            THEN [label |-> formatAggregationLabel(e[1]),
                  buckets |-> [b \in 1..Len(Take(e[2].v, BucketLimit)) |->
                                  <<ChildText(Get(e[2].v[b], k_key)),
                                    ChildText(Get(e[2].v[b], k_count))>>],
                  value |-> <<>>]
            ELSE [label |-> formatAggregationLabel(e[1]),
                  buckets |-> <<>>,
                  value |-> formatValue(e[2])]
        source(e) ==
            LET metrics == ObjectEntries(e[2])
            IN  [source |-> IF e[1] = <<>> THEN <<>>
                            ELSE <<toUpperCase(e[1][1])>> \o Tail(e[1]),
                 items |-> [m \in 1..Len(metrics) |-> item(metrics[m])]]
    IN  [i \in 1..Len(sources) |-> source(sources[i])]

renderAggregationsThrows(d) ==
    LET sources == ObjectEntries(Get(d, k_aggregations))
        itemThrows(e) ==
            IF e[2].t = "array"
            THEN \E b \in 1..Len(Take(e[2].v, BucketLimit)) :
                    \/ Nullish(e[2].v[b])
                    \/ ChildThrows(Get(e[2].v[b], k_key))
                    \/ ChildThrows(Get(e[2].v[b], k_count))
            ELSE typeof(e[2]) # "number" /\ ChildThrows(e[2])
    IN  \E i \in 1..Len(sources) :
            \/ Nullish(sources[i][2])
            \/ \E m \in 1..Len(ObjectEntries(sources[i][2])) :
                    itemThrows(ObjectEntries(sources[i][2])[m])

ShowsAggregations(d) ==
    Truthy(Get(d, k_aggregations)) /\ Len(ObjectEntries(Get(d, k_aggregations))) > 0

\* renderSummary
renderSummary(d) ==
    [kind |-> "summary",
     stats |->
        (IF Get(d, k_total_results).t # "undefined"
         THEN <<ChildText(Get(d, k_total_results)) \o <<" ", "r", "e", "c", "o", "r", "d", "s">>>> ELSE <<>>)
        \o (IF Truthy(Get(d, k_sources)) /\ Get(d, k_sources).t = "array"
            THEN <<Join([i \in 1..Len(Get(d, k_sources).v) |->
                            IF Nullish(Get(d, k_sources).v[i]) THEN <<>>
                            ELSE toString(Get(d, k_sources).v[i])], <<",", " ">>)>>
            ELSE <<>>)
        \o (IF Truthy(Get(Get(d, k_metadata), k_processing_time))
            THEN <<<<"P", "r", "o", "c", "e", "s", "s", "e", "d">>>> ELSE <<>>),
     text |-> IF Truthy(Get(d, k_summary)) THEN <<ChildText(Get(d, k_summary))>> ELSE <<>>,
     aggregations |-> IF ShowsAggregations(d) THEN renderAggregations(d) ELSE <<>>]

renderSummaryThrows(d) ==
    \/ ChildThrows(Get(d, k_total_results))
    \/ Truthy(Get(d, k_sources)) /\ Get(d, k_sources).t # "array"
    \/ Truthy(Get(d, k_summary)) /\ ChildThrows(Get(d, k_summary))
    \/ ShowsAggregations(d) /\ renderAggregationsThrows(d)

\* A variant that shows every row.
renderTableUnsliced(d) ==
    IF ~HasElements(Get(d, k_results))
    THEN [kind |-> "no-results"]
    ELSE LET results == Get(d, k_results).v
             columns == getTableColumns(results)
         IN  [kind |-> "table",
              showing |-> Len(results),
              total |-> IF Truthy(Get(d, k_total_results))
                        THEN ChildText(Get(d, k_total_results)) ELSE Digits(Len(results)),
              columns |-> columns,
              headers |-> [c \in 1..Len(columns) |-> formatColumnName(columns[c])],
              classes |-> [c \in 1..Len(columns) |-> getColumnClass(columns[c])],
              rows |-> [r \in 1..Len(results) |->
                          [c \in 1..Len(columns) |->
                              formatCellValue(Get(results[r], columns[c]), columns[c])]]]

\* renderTable
renderTable(d) ==
    IF ~HasElements(Get(d, k_results))
    THEN [kind |-> "no-results"]
    ELSE LET results == Take(Get(d, k_results).v, RowLimit)
             columns == getTableColumns(results)
         IN  [kind |-> "table",
              showing |-> Len(results),
              total |-> IF Truthy(Get(d, k_total_results))
                        THEN ChildText(Get(d, k_total_results)) ELSE Digits(Len(results)),
              columns |-> columns,
              headers |-> [c \in 1..Len(columns) |-> formatColumnName(columns[c])],
              classes |-> [c \in 1..Len(columns) |-> getColumnClass(columns[c])],
              rows |-> [r \in 1..Len(results) |->
                          [c \in 1..Len(columns) |->
                              formatCellValue(Get(results[r], columns[c]), columns[c])]]]

\* Object.keys(result) in getTableColumns throws for a null row.
renderTableThrows(d) ==
    /\ Truthy(Get(d, k_results))
    /\ \/ Get(d, k_results).t # "array"
       \/ /\ Get(d, k_results).v # <<>>
          /\ \/ \E r \in 1..Len(Take(Get(d, k_results).v, RowLimit)) :
                    Nullish(Get(d, k_results).v[r])
             \/ ChildThrows(Get(d, k_total_results))

\* renderTimeline; nothing when there is no timeline.
renderTimeline(d) ==
    IF ~HasElements(Get(d, k_timeline))
    THEN <<>>
    ELSE LET timeline == Get(d, k_timeline).v
             samples(item) ==
                IF Get(item, k_items).t = "array" /\ HasElements(Get(item, k_items))
                THEN LET shown == Take(Get(item, k_items).v, SampleLimit)
                     IN  [i \in 1..Len(shown) |->
                            Take(Stringify(shown[i], 0, 0), SampleLength) \o <<".", ".", ".">>]
                ELSE <<>>
         IN  <<[kind |-> "timeline",
                items |-> [i \in 1..Len(timeline) |->
                             [date |-> ChildText(Get(timeline[i], k_date)),
                              count |-> ChildText(Get(timeline[i], k_count)) \o <<" ", "i", "t", "e", "m", "s">>,
                              samples |-> samples(timeline[i])]]]>>

renderTimelineThrows(d) ==
    /\ Truthy(Get(d, k_timeline))
    /\ \/ Get(d, k_timeline).t # "array"
       \/ \E i \in 1..Len(Get(d, k_timeline).v) :
             LET item == Get(d, k_timeline).v[i]
             IN  \/ Nullish(item)
                 \/ ChildThrows(Get(item, k_date))
                 \/ ChildThrows(Get(item, k_count))
                 \/ HasElements(Get(item, k_items)) /\ Get(item, k_items).t # "array"

\* renderRawData
renderRawData(d) == [kind |-> "raw", text |-> Stringify(d, 2, 0)]

\* The mode buttons the view controls offer.
Modes == {"summary", "table", "timeline"}

\* A variant whose buttons are always there.
OfferedAlways(d, mode) == TRUE

\* The condition under which a mode button is rendered.
Offered(d, mode) ==
    CASE mode = "summary" -> TRUE
      [] mode = "table" -> Truthy(Get(d, k_results)) /\ HasElements(Get(d, k_results))
      [] mode = "timeline" -> Truthy(Get(d, k_timeline)) /\ HasElements(Get(d, k_timeline))

\* The early returns of ResultsDisplay: no data, or data without keys.
RendersNothing(d) == ~Truthy(d) \/ Len(ObjectEntries(d)) = 0

Nothing == [visible |-> FALSE]

\* A variant whose raw view is shown in summary mode only.
ContentRawInSummaryOnly(d, mode, raw) ==
    IF raw /\ mode = "summary" THEN <<renderRawData(d)>>
    ELSE CASE mode = "summary" -> <<renderSummary(d)>>
           [] mode = "table" -> <<renderTable(d)>>
           [] mode = "timeline" -> renderTimeline(d)

\* The results-content block.
Content(d, mode, raw) ==
    IF raw THEN <<renderRawData(d)>>
    ELSE CASE mode = "summary" -> <<renderSummary(d)>>
           [] mode = "table" -> <<renderTable(d)>>
           [] mode = "timeline" -> renderTimeline(d)

\* What ResultsDisplay returns, when it does not throw.
Render(d, mode, raw) ==
    IF RendersNothing(d) THEN Nothing
    ELSE [visible |-> TRUE,
          controls |-> SelectSeq(<<"summary", "table", "timeline">>,
                                 LAMBDA m : Offered(d, m)) \o <<"raw-data-toggle">>,
          content |-> Content(d, mode, raw)]

\* ResultsDisplay throws while rendering.
RenderThrows(d, mode, raw) ==
    /\ ~RendersNothing(d)
    /\ ~raw
    /\ CASE mode = "summary" -> renderSummaryThrows(d)
         [] mode = "table" -> renderTableThrows(d)
         [] mode = "timeline" -> renderTimelineThrows(d)

(* ------------------------- the presenter's inputs ----------------------- *)

MaxRows == 11
MaxBuckets == 8

Repeat(c, n) == [i \in 1..n |-> c]

k_name == <<"n", "a", "m", "e">>
k_email == <<"e", "m", "a", "i", "l">>
k_score == <<"_", "s", "c", "o", "r", "e">>
k_unit_price == <<"u", "n", "i", "t", "_", "p", "r", "i", "c", "e">>
k_created_at == <<"c", "r", "e", "a", "t", "e", "d", "_", "a", "t">>
k_elasticsearch == <<"e", "l", "a", "s", "t", "i", "c", "s", "e", "a", "r", "c", "h">>
k_postgresql == <<"p", "o", "s", "t", "g", "r", "e", "s", "q", "l">>
k_by_category == <<"b", "y", "_", "c", "a", "t", "e", "g", "o", "r", "y">>
k_avg_price == <<"a", "v", "g", "_", "p", "r", "i", "c", "e">>

\* Rows of a result set, by shape: a private field, more fields than the
\* table shows, fields in differing order, a field that first appears late.
Shapes == {"users", "wide", "ragged", "late"}

Row(shape, i) ==
    CASE shape = "users" ->
            Obj(<< <<k_id, Num(i)>>, <<k_score, Num(i)>>, <<k_name, Str(<<"u">> \o Digits(i))>> >>)
      [] shape = "wide" ->
            Obj([c \in 1..8 |-> << <<"c">> \o Digits(c), Num(10 * i + c)>>])
      [] shape = "ragged" ->
            IF i % 2 = 1
            THEN Obj(<< <<k_name, Str(<<"u">> \o Digits(i))>>, <<k_id, Num(i)>> >>)
            ELSE Obj(<< <<k_id, Num(i)>>, <<k_email, Str(<<"e">> \o Digits(i))>>,
                        <<k_name, Str(<<"u">> \o Digits(i))>> >>)
      [] shape = "late" ->
            IF i <= RowLimit
            THEN Obj(<< <<k_id, Num(i)>> >>)
            ELSE Obj(<< <<k_id, Num(i)>>, <<k_email, Str(<<"e">> \o Digits(i))>> >>)

TableEnvelope(shape, n) ==
    Obj(<< <<k_total_results, Num(n)>>,
           <<k_results, Arr([i \in 1..n |-> Row(shape, i)])>> >>)

\* Cell values of every kind formatCellValue distinguishes.
IsoDate == <<"2", "0", "2", "4", "-", "0", "3", "-", "1", "5", "T", "1", "0", ":", "3", "0", ":", "0", "0", "Z">>
NotADate == <<"T", "B", "D", " ", "b", "y", " ", "Z", "o", "e">>

CellValues ==
    {Null, Num(0), Num(950), Num(87234), Bool(TRUE),
     Str(<<>>), Str(<<"N", "/", "A">>), Str(IsoDate), Str(NotADate),
     Str(Repeat("x", TruncateAt)), Str(Repeat("x", TruncateAt + 1)),
     Arr(<<Num(1), Num(2)>>), Obj(<< <<k_name, Str(<<"A">>)>> >>)}

CellColumns == {k_name, k_salary, k_unit_price, k_created_at}

CellEnvelope(column, value) ==
    Obj(<< <<k_results, Arr(<<Obj(<< <<column, value>> >>)>>)>> >>)

Bucket(i) == Obj(<< <<k_key, Str(<<"b">> \o Digits(i))>>, <<k_count, Num(100 - i)>> >>)

AggEnvelope(n) ==
    Obj(<< <<k_aggregations,
             Obj(<< <<k_elasticsearch,
                      Obj(<< <<k_by_category, Arr([i \in 1..n |-> Bucket(i)])>>,
                             <<k_avg_price, Num(1234)>> >>)>> >>)>> >>)

\* An envelope with every field, so that every view mode is offered.
FullEnvelope ==
    Obj(<< <<k_total_results, Num(2)>>,
           <<k_sources, Arr(<<Str(k_elasticsearch), Str(k_postgresql)>>)>>,
           <<k_metadata, Obj(<< <<k_processing_time, Num(12)>> >>)>>,
           <<k_summary, Str(<<"2", " ", "u", "s", "e", "r", "s">>)>>,
           <<k_aggregations, Obj(<< <<k_postgresql, Obj(<< <<k_avg_price, Num(1234)>> >>)>> >>)>>,
           <<k_results, Arr(<<Row("users", 1), Row("users", 2)>>)>>,
           <<k_timeline,
             Arr(<<Obj(<< <<k_date, Str(<<"2", "0", "2", "4", "-", "0", "3">>)>>, <<k_count, Num(3)>>,
                          <<k_items, Arr(<<Row("users", 1), Row("users", 2),
                                           Row("users", 3)>>)>> >>)>>)>> >>)

\* Envelopes with nothing in them.
EmptyEnvelope == Obj(<<>>)

AllEmptyEnvelope ==
    Obj(<< <<k_results, Arr(<<>>)>>, <<k_timeline, Arr(<<>>)>>,
           <<k_aggregations, Obj(<<>>)>> >>)

EmptyEnvelopes ==
    {EmptyEnvelope, AllEmptyEnvelope,
     Obj(<< <<k_results, Arr(<<>>)>> >>),
     Obj(<< <<k_aggregations, Obj(<<>>)>> >>)}

\* Envelopes with a missing or malformed field.
MalformedEnvelopes ==
    {Obj(<< <<k_summary, Str(<<"2", " ", "u", "s", "e", "r", "s">>)>> >>),
     Obj(<< <<k_total_results, Num(1)>>, <<k_sources, Str(k_elasticsearch)>> >>),
     Obj(<< <<k_total_results, Num(1)>>, <<k_sources, Null>> >>),
     Obj(<< <<k_aggregations, Obj(<< <<k_postgresql, Null>> >>)>> >>),
     Obj(<< <<k_aggregations, Obj(<< <<k_postgresql, Str(<<"d", "o", "w", "n">>)>> >>)>> >>),
     Obj(<< <<k_results, Arr(<<Null, Row("users", 1)>>)>> >>),
     Obj(<< <<k_results, Null>>, <<k_timeline, Null>> >>)}

Envelopes ==
    {Undef, Null, FullEnvelope}
        \cup EmptyEnvelopes
        \cup MalformedEnvelopes
        \cup {TableEnvelope(shape, n) : shape \in Shapes, n \in 0..MaxRows}
        \cup {CellEnvelope(column, value) : column \in CellColumns, value \in CellValues}
        \cup {AggEnvelope(n) : n \in 0..MaxBuckets}

(* ------------------------ the presenter's operations -------------------- *)

\* ChatMessage mounts ResultsDisplay for truthy data; its buttons exist while
\* it renders something and has not thrown.
Mounted ==
    /\ Truthy(dataProp)
    /\ ~RendersNothing(dataProp)
    /\ ~RenderThrows(dataProp, viewMode, showRawData)

Remember(op) ==
    (IF phist = <<>> THEN <<>> ELSE <<phist[Len(phist)]>>)
        \o <<[op |-> op, viewMode |-> viewMode, showRawData |-> showRawData]>>

\* A variant that also leaves the raw view.
setViewModeClosingRaw(mode) ==
    /\ Mounted
    /\ Offered(dataProp, mode)
    /\ viewMode' = mode
    /\ showRawData' = FALSE
    /\ phist' = Remember("setViewMode")
    /\ UNCHANGED <<dataProp, convVars>>

\* onClick of a mode button
setViewMode(mode) ==
    /\ Mounted
    /\ Offered(dataProp, mode)
    /\ viewMode' = mode
    /\ phist' = Remember("setViewMode")
    /\ UNCHANGED <<dataProp, showRawData, convVars>>

\* A variant that also goes back to the summary.
toggleRawResetting ==
    /\ Mounted
    /\ showRawData' = ~showRawData
    /\ viewMode' = "summary"
    /\ phist' = Remember("toggleRaw")
    /\ UNCHANGED <<dataProp, convVars>>

\* onClick of the raw-data toggle
toggleRaw ==
    /\ Mounted
    /\ showRawData' = ~showRawData
    /\ phist' = Remember("toggleRaw")
    /\ UNCHANGED <<dataProp, viewMode, convVars>>

SelectMode == \E mode \in Modes : setViewMode(mode)

PresenterInit ==
    /\ messages = InitialMessages
    /\ inputValue = <<>>
    /\ isLoading = FALSE
    /\ now = 0
    /\ inflight = EmptyBag
    /\ chatPosts = 0
    /\ last = [op |-> "mount"]
    /\ dataProp \in Envelopes
    /\ viewMode = "summary"
    /\ showRawData = FALSE
    /\ phist = <<>>

PresenterNext == SelectMode \/ toggleRaw

PresenterSpec == PresenterInit /\ [][PresenterNext]_vars

(* ------------------------------ properties ----------------------------- *)
\* A text with nothing but whitespace in it (the empty text included).
Blank(s) == \A i \in 1..Len(s) : s[i] \in Whitespace

LastMessage == messages[Len(messages)]

\* A turn has been accepted and has not resolved: its user message is the
\* last of the log.
Sending == LastMessage.type = "user"

SubmitRejected == last.op = "handleSendMessage" /\ ~last.accepted

ChatSettled == last.op = "settle" /\ last.req.fn = "sendMessage"

\* C1: a submit whose input is empty or whitespace-only, or that comes while a
\* turn is Sending, changes neither the message log nor the loading flag and
\* issues no gateway request.
C1_RejectedSubmitIsNoOp ==
    [][(handleSendMessage /\ (Blank(inputValue) \/ Sending))
        => UNCHANGED <<messages, isLoading, inflight, chatPosts>>]_vars

\* A submit was rejected while a turn was Sending although the pending input
\* (prefilled by a quick query) was not blank.
C1_Witness == SubmitRejected /\ Sending /\ ~Blank(inputValue)

\* C2: at most one chat request is outstanding in every reachable state, and
\* a chat request is only ever issued by a submit that arrives while none is
\* outstanding (a submit arriving while one is outstanding is not sent, then
\* or later).
C2_SingleChatInFlight ==
    /\ [](OutstandingChat <= 1)
    /\ [][OutstandingChat' > OutstandingChat
            => (OutstandingChat = 0 /\ ~Sending /\ handleSendMessage)]_vars

\* A submit arrived and was rejected while the chat request of the second
\* turn was outstanding.
C2_Witness == OutstandingChat = 1 /\ SubmitRejected /\ Len(messages) = 4

\* C3: after the greeting the log alternates user message, assistant reply;
\* every accepted submit has contributed its user message and, once resolved,
\* exactly one reply, which directly follows the user message of its own turn.
C3_TurnsAlternate ==
    /\ \A i \in 2..Len(messages) :
          messages[i].type = (IF i % 2 = 0 THEN "user" ELSE "bot")
    /\ Len(messages) = 1 + 2 * chatPosts - OutstandingChat
    /\ ChatSettled =>
          /\ LastMessage.type = "bot"
          /\ messages[Len(messages) - 1].type = "user"
          /\ messages[Len(messages) - 1].content = last.req.data[1]

\* Two turns have resolved.
C3_Witness == Len(messages) = 5 /\ ChatSettled

\* The texts that tell what went wrong: the transport's own messages and
\* codes, and the messages the interceptor substitutes.
Diagnostics ==
    {e.message : e \in TransportErrors} \cup {<<e.code>> : e \in TransportErrors}
        \cup {UnreachableMsg, ServerErrorMsg, NotFoundMsg}

\* C4: when the chat request fails, whatever the failure, the turn's user
\* message is followed by one assistant message with the failed flag, the
\* fixed apology text, no envelope and no query info; no message of the log
\* ever shows a failure's kind or diagnostic text.
C4_FailureGivesApology ==
    /\ (ChatSettled /\ ~last.raw.ok) =>
          /\ LastMessage.type = "bot"
          /\ LastMessage.error = TRUE
          /\ LastMessage.content = Apology
          /\ LastMessage.data = Undefined
          /\ LastMessage.queryInfo = Undefined
          /\ messages[Len(messages) - 1].type = "user"
    /\ \A i \in 1..Len(messages) : messages[i].content \notin Diagnostics

\* A chat request has just failed with the timeout.
C4_Witness == ChatSettled /\ ~last.raw.ok /\ last.raw.error.code = "ECONNABORTED"

\* C5: when the chat request succeeds, the turn's user message is followed by
\* one assistant message whose text, envelope and query info are the
\* response's `response`, `data` and `query_info`, without the failed flag,
\* and the conversation is Idle again.
C5_SuccessGivesReply ==
    (ChatSettled /\ last.raw.ok) =>
        /\ LastMessage.type = "bot"
        /\ LastMessage.content = last.raw.response.data.response
        /\ LastMessage.data = last.raw.response.data.data
        /\ LastMessage.queryInfo = last.raw.response.data.query_info
        /\ LastMessage.error = FALSE
        /\ messages[Len(messages) - 1].type = "user"
        /\ ~isLoading
        /\ OutstandingChat = 0

\* A chat request has just succeeded with an envelope and query info.
C5_Witness == ChatSettled /\ last.raw.ok /\ LastMessage.data = "Envelope1"

\* C6: the loading flag is set only by an accepted submit and cleared only by
\* the settling of that turn's chat request; given that the request settles
\* (with a response, a failure or the timeout), a set loading flag is
\* eventually cleared, and once it is clear a non-blank submit is accepted.
C6_TurnLifecycle ==
    /\ [][isLoading' # isLoading =>
            IF isLoading'
            THEN handleSendMessage /\ ~Sending /\ Sending'
            ELSE (ChatSucceeds \/ ChatFails) /\ Sending /\ ~Sending']_vars
    /\ (isLoading ~> ~isLoading)
    /\ []((~isLoading /\ ~Blank(inputValue) /\ UserTurns < MaxTurns)
            => ENABLED (handleSendMessage /\ isLoading'))

\* After a turn that failed, the next submit has been accepted.
C6_Witness ==
    /\ Len(messages) = 4
    /\ messages[3].error = TRUE
    /\ isLoading
    /\ last = [op |-> "handleSendMessage", accepted |-> TRUE]

\* The kind of the spec's taxonomy an error thrown by the client stands for.
ErrorKind(e) ==
    IF e = NewError(UnreachableMsg) THEN "Unreachable"
    ELSE IF e = NewError(ServerErrorMsg) THEN "ServerError"
    ELSE IF e = NewError(NotFoundMsg) THEN "NotFound"
    ELSE "Unknown"

ThrowingMethods ==
    {"sendMessage", "getHealth", "getElasticsearchSchema", "getPostgreSQLSchema"}

\* C7: whichever of sendMessage, getHealth and the schema calls issued the
\* request, a connection-refused failure is thrown as Unreachable, a failure
\* with any HTTP 5xx status as ServerError, one with HTTP 404 as NotFound, and
\* any other failure is thrown as it is.
C7_InterceptorTaxonomy ==
    (last.op = "settle" /\ last.req.fn \in ThrowingMethods /\ ~last.raw.ok) =>
        LET e == last.raw.error
            t == last.result.error
        IN  /\ ~last.result.ok
            /\ IF e.code = "ECONNREFUSED" THEN ErrorKind(t) = "Unreachable"
               ELSE IF e.status \in 500..599 THEN ErrorKind(t) = "ServerError"
               ELSE IF e.status = 404 THEN ErrorKind(t) = "NotFound"
               ELSE t = e

\* C8: the number of chat requests issued equals the number of accepted
\* submits; a request is issued only in the step of an accepted submit, and
\* the step that resolves a turn as Failed leaves no request outstanding.
C8_NoAutomaticRetry ==
    /\ [](chatPosts = UserTurns)
    /\ [][chatPosts' # chatPosts =>
            (handleSendMessage /\ chatPosts' = chatPosts + 1
                /\ Len(messages') = Len(messages) + 1)]_vars
    /\ [][ChatFails => (OutstandingChat' = 0 /\ chatPosts' = chatPosts)]_vars

\* Two turns have failed, and two requests have been issued in all.
C8_Witness ==
    /\ Len(messages) = 5
    /\ messages[3].error = TRUE
    /\ messages[5].error = TRUE
    /\ chatPosts = 2

\* C9: handleQuickQuery sets the pending input to the query and leaves the
\* message log, the loading flag and the outstanding requests as they are,
\* also while a turn is Sending.
C9_PrefillIsFrameOnly ==
    [][QuickQuery =>
        /\ inputValue' \in quickQueries
        /\ UNCHANGED <<messages, isLoading, inflight, chatPosts>>]_vars

\* A quick query was chosen while a turn was Sending.
C9_Witness == last.op = "handleQuickQuery" /\ Sending /\ isLoading /\ inputValue \in quickQueries

AvailabilityRequest == Request("checkBackendAvailability", "GET", "/", <<>>)

\* C10: checkBackendAvailability always returns, never throws; it returns
\* true exactly when the transport gave a response; issuing the probe and
\* its settling leave the message log, the loading flag and the chat
\* requests as they are.
C10_AvailabilityProbe ==
    /\ []((last.op = "settle" /\ last.req = AvailabilityRequest) =>
            /\ last.result.ok
            /\ last.result.value \in BOOLEAN
            /\ last.result.value = last.raw.ok)
    /\ [][CopiesIn(AvailabilityRequest, inflight') # CopiesIn(AvailabilityRequest, inflight)
            => /\ UNCHANGED <<messages, isLoading, chatPosts>>
               /\ OutstandingChat' = OutstandingChat]_vars

\* The probe failed with a refused connection, which the interceptor
\* rewrites, while a turn was Sending.
C10_Witness ==
    /\ last.op = "settle"
    /\ last.req = AvailabilityRequest
    /\ ~last.raw.ok
    /\ last.raw.error.code = "ECONNREFUSED"
    /\ isLoading

\* C11: the message log only grows at its end: in every step the log before
\* the step is a prefix of the log after it.
C11_LogIsAppendOnly ==
    [][/\ Len(messages') >= Len(messages)
       /\ SubSeq(messages', 1, Len(messages)) = messages]_vars

\* Two turns have been appended, the first failed and the second answered,
\* and a quick query was chosen afterwards.
C11_Witness ==
    /\ Len(messages) = 5
    /\ messages[3].error = TRUE
    /\ messages[5].error = FALSE
    /\ last.op = "handleQuickQuery"

\* C12: the ids of the messages in the log are pairwise distinct, whatever
\* the times at which submits are accepted and requests settle.
C12_DistinctIds ==
    \A i, j \in 1..Len(messages) : i # j => messages[i].id # messages[j].id

(* ------------------------------ the presenter --------------------------- *)

Visible == ~RendersNothing(dataProp)

LastOp == IF phist = <<>> THEN "none" ELSE phist[Len(phist)].op

NonEmptySequence(x) == x.t = "array" /\ x.v # <<>>

\* C13: with showRawData set the content is the raw serialization of the whole
\* envelope and nothing else, whatever the view mode; without it the content
\* has the section of the view mode and no raw serialization.
C13_RawSupersedesMode ==
    Visible =>
        /\ \A mode \in Modes :
              Render(dataProp, mode, TRUE).content
                  = <<[kind |-> "raw", text |-> Stringify(dataProp, 2, 0)]>>
        /\ ~RenderThrows(dataProp, viewMode, TRUE)
        /\ \A mode \in Modes :
              \A i \in 1..Len(Render(dataProp, mode, FALSE).content) :
                  LET section == Render(dataProp, mode, FALSE).content[i]
                  IN  CASE mode = "summary" -> section.kind = "summary"
                        [] mode = "table" -> section.kind \in {"table", "no-results"}
                        [] mode = "timeline" -> section.kind = "timeline"
        /\ Render(dataProp, viewMode, showRawData).content
              = IF showRawData THEN Render(dataProp, "summary", TRUE).content
                ELSE Render(dataProp, viewMode, FALSE).content

C13_Witness ==
    /\ dataProp = FullEnvelope
    /\ showRawData
    /\ viewMode = "table"
    /\ LastOp = "setViewMode"

\* C14: after two consecutive toggleRaw operations viewMode and showRawData are
\* what they were before the first, and so is the rendering.
C14_ToggleRoundTrip ==
    (Len(phist) = 2 /\ phist[1].op = "toggleRaw" /\ phist[2].op = "toggleRaw") =>
        /\ viewMode = phist[1].viewMode
        /\ showRawData = phist[1].showRawData
        /\ Render(dataProp, viewMode, showRawData)
              = Render(dataProp, phist[1].viewMode, phist[1].showRawData)

C14_Witness ==
    /\ dataProp = FullEnvelope
    /\ Len(phist) = 2 /\ phist[1].op = "toggleRaw" /\ phist[2].op = "toggleRaw"
    /\ viewMode = "timeline"
    /\ ~showRawData

\* C15: viewMode changes only to a mode that is eligible for the envelope
\* (summary always, table iff results is a non-empty sequence, timeline iff
\* timeline is a non-empty sequence), so viewMode is never table without
\* results nor timeline without a timeline.
Eligible(d, mode) ==
    CASE mode = "summary" -> TRUE
      [] mode = "table" -> NonEmptySequence(Get(d, k_results))
      [] mode = "timeline" -> NonEmptySequence(Get(d, k_timeline))

FirstSeen(rows, key) ==
    LET r == CHOOSE r \in 1..Len(rows) :
                /\ \E e \in 1..Len(ObjectEntries(rows[r])) : ObjectEntries(rows[r])[e][1] = key
                /\ \A q \in 1..(r - 1) :
                      \A e \in 1..Len(ObjectEntries(rows[q])) : ObjectEntries(rows[q])[e][1] # key
        e == CHOOSE e \in 1..Len(ObjectEntries(rows[r])) : ObjectEntries(rows[r])[e][1] = key
    IN  <<r, e>>

Before(a, b) == a[1] < b[1] \/ (a[1] = b[1] /\ a[2] < b[2])

C16_TableIsBounded ==
    (Mounted /\ viewMode = "table" /\ ~showRawData) =>
        LET all == Get(dataProp, k_results).v
            n == IF Len(all) < 10 THEN Len(all) ELSE 10
            shown == SubSeq(all, 1, n)
            table == Render(dataProp, viewMode, showRawData).content[1]
            fields(row) == {ObjectEntries(row)[e][1] : e \in 1..Len(ObjectEntries(row))}
            names == UNION {fields(shown[r]) : r \in 1..n}
            public == {key \in names : key = <<>> \/ key[1] # "_"}
        IN  /\ table.kind = "table"
            /\ table.showing = n
            /\ Len(table.rows) = n
            /\ Len(table.columns) <= 6
            /\ Len(table.columns) = IF Cardinality(public) < 6 THEN Cardinality(public) ELSE 6
            /\ \A c \in 1..Len(table.columns) : table.columns[c] \in public
            /\ \A c, e \in 1..Len(table.columns) :
                  c < e => Before(FirstSeen(shown, table.columns[c]),
                                  FirstSeen(shown, table.columns[e]))
            /\ \A key \in public :
                  (\A c \in 1..Len(table.columns) : table.columns[c] # key) =>
                      \A c \in 1..Len(table.columns) :
                          Before(FirstSeen(shown, table.columns[c]), FirstSeen(shown, key))
            /\ \A r \in 1..n :
                  /\ Len(table.rows[r]) = Len(table.columns)
                  /\ \A c \in 1..Len(table.columns) :
                        table.rows[r][c] = formatCellValue(Get(all[r], table.columns[c]),
                                                           table.columns[c])

C16_Witness ==
    /\ dataProp = TableEnvelope("wide", RowLimit + 1)
    /\ viewMode = "table"
    /\ ~showRawData
    /\ LastOp = "setViewMode"

\* C17: an envelope whose fields are all absent or all empty renders no
\* visible section.
AllFieldsEmpty(d) ==
    /\ d.t = "object"
    /\ \A e \in 1..Len(d.v) :
          \/ Nullish(d.v[e][2])
          \/ d.v[e][2].t \in {"array", "object", "string"} /\ d.v[e][2].v = <<>>

C17_EmptyEnvelopeRendersNothing ==
    AllFieldsEmpty(dataProp) => Render(dataProp, viewMode, showRawData) = Nothing

\* C18: rendering never throws, for every envelope in every view mode.
C18_PresenterNeverRaises ==
    \A mode \in Modes : \A raw \in BOOLEAN : ~RenderThrows(dataProp, mode, raw)

\* C19: every cell of the table is formatted by the five rules in priority
\* order, the currency rule applying to numeric values only. (What a date-like
\* string that does not parse becomes is left open here.)
DateLike(value) ==
    value.t = "string" /\ (\E i \in 1..Len(value.v) : value.v[i] = "T")
                       /\ (\E i \in 1..Len(value.v) : value.v[i] = "Z")

MoneyColumn(column) ==
    \E i \in 1..Len(column) :
        \/ i + 4 <= Len(column) /\ SubSeq(column, i, i + 4) = <<"p", "r", "i", "c", "e">>
        \/ i + 5 <= Len(column) /\ SubSeq(column, i, i + 5) = <<"s", "a", "l", "a", "r", "y">>

FiveRules(value, column, shown) ==
    IF value.t \in {"null", "undefined"} THEN shown = <<"-">>
    ELSE IF DateLike(value)
    THEN IsValidDate(value.v) => shown = toLocaleDateString(value.v)
    ELSE IF value.t = "number" /\ MoneyColumn(column)
    THEN shown = <<"$">> \o NumberToLocaleString(value.v)
    ELSE IF value.t = "string" /\ Len(value.v) > 50
    THEN shown = SubSeq(value.v, 1, 50) \o <<".", ".", ".">>
    ELSE shown = toString(value)

ShownTable == Mounted /\ viewMode = "table" /\ ~showRawData

C19_FiveRules ==
    ShownTable =>
        LET table == Render(dataProp, viewMode, showRawData).content[1]
        IN  \A r \in 1..Len(table.rows) : \A c \in 1..Len(table.columns) :
                FiveRules(Get(Get(dataProp, k_results).v[r], table.columns[c]),
                          table.columns[c], table.rows[r][c])

\* C20: a date-like string cell that does not parse as a date is shown
\* unchanged.
C20_UnparsableDateVerbatim ==
    ShownTable =>
        LET table == Render(dataProp, viewMode, showRawData).content[1]
        IN  \A r \in 1..Len(table.rows) : \A c \in 1..Len(table.columns) :
                LET value == Get(Get(dataProp, k_results).v[r], table.columns[c])
                IN  (DateLike(value) /\ ~IsValidDate(value.v)) =>
                        table.rows[r][c] = value.v

\* C21: a bucket-valued aggregation metric of length n is rendered in the
\* summary as its first min(n, 5) buckets, in order, each as its key and its
\* count; the excess is left out and nothing throws.
WellFormedBucket(b) ==
    /\ b.t = "object"
    /\ Get(b, k_key).t \in {"string", "number"}
    /\ Get(b, k_count).t = "number"

WellFormedAggregations(d) ==
    LET aggregations == Get(d, k_aggregations)
    IN  /\ aggregations.t = "object"
        /\ \A s \in 1..Len(aggregations.v) :
              /\ aggregations.v[s][2].t = "object"
              /\ \A m \in 1..Len(aggregations.v[s][2].v) :
                    LET value == aggregations.v[s][2].v[m][2]
                    IN  \/ value.t = "number"
                        \/ /\ value.t = "array"
                           /\ \A b \in 1..Len(value.v) : WellFormedBucket(value.v[b])

ShownSummary == Mounted /\ viewMode = "summary" /\ ~showRawData

C21_FirstFiveBuckets ==
    (Visible /\ WellFormedAggregations(dataProp)) =>
        /\ ~renderAggregationsThrows(dataProp)
        /\ ShownSummary =>
              LET aggregations == Get(dataProp, k_aggregations).v
                  shown == Render(dataProp, viewMode, showRawData).content[1].aggregations
              IN  /\ Len(shown) = Len(aggregations)
                  /\ \A s \in 1..Len(aggregations) :
                        /\ Len(shown[s].items) = Len(aggregations[s][2].v)
                        /\ \A m \in 1..Len(aggregations[s][2].v) :
                              LET value == aggregations[s][2].v[m][2]
                                  n == Len(value.v)
                                  buckets == shown[s].items[m].buckets
                              IN  value.t = "array" =>
                                    /\ Len(buckets) = IF n < 5 THEN n ELSE 5
                                    /\ \A b \in 1..Len(buckets) :
                                          buckets[b] = <<ChildText(Get(value.v[b], k_key)),
                                                         ChildText(Get(value.v[b], k_count))>>

C21_Witness ==
    /\ dataProp = AggEnvelope(8)
    /\ ShownSummary
    /\ Len(Render(dataProp, viewMode, showRawData).content[1].aggregations[1].items[1].buckets) = 5
    /\ LastOp = "toggleRaw"

\* C22: an accepted submit sends exactly the text it appends as the user
\* message (the input as typed, untrimmed) with the conversation id "default",
\* and leaves the input empty.
Accepted == last.op = "handleSendMessage" /\ last.accepted

C22_SentTextIsUserMessage ==
    [][(Accepted' /\ Len(messages') > Len(messages)) =>
            LET typed == inputValue
                sent == CHOOSE req \in BagToSet(inflight') :
                            CopiesIn(req, inflight') > CopiesIn(req, inflight)
            IN  /\ \E req \in BagToSet(inflight') :
                      CopiesIn(req, inflight') > CopiesIn(req, inflight)
                /\ BagCardinality(inflight') = BagCardinality(inflight) + 1
                /\ sent.method = "POST" /\ sent.url = "/chat"
                /\ sent.data[1] = typed
                /\ sent.data[1] = messages'[Len(messages')].content
                /\ messages'[Len(messages')].type = "user"
                /\ sent.data[2] = <<"default">>
                /\ inputValue' = <<>>]_vars

C22_Witness ==
    /\ Accepted
    /\ LastMessage.type = "user"
    /\ LastMessage.content = <<" ", "h", "i">>
    /\ trim(LastMessage.content) # LastMessage.content
    /\ ChatInFlight = {ChatRequest(LastMessage.content, <<"default">>)}
    /\ inputValue = <<>>

\* C23: a presentation state starts as summary without raw data; toggleRaw
\* flips showRawData and leaves viewMode alone, setViewMode leaves showRawData
\* alone; a mode selected while showRawData is set is stored, the rendering
\* stays the raw one, and it becomes that mode's section when showRawData is
\* toggled off.
RawContent == <<[kind |-> "raw", text |-> Stringify(dataProp, 2, 0)]>>

C23_ModeAndRawAreIndependent ==
    /\ (viewMode = "summary" /\ showRawData = FALSE)
    /\ [][/\ toggleRaw => (viewMode' = viewMode /\ showRawData' = ~showRawData)
          /\ (\E mode \in Modes : setViewMode(mode)) => showRawData' = showRawData
          /\ viewMode' # viewMode => showRawData' = showRawData
          /\ showRawData' # showRawData => viewMode' = viewMode
          /\ (showRawData /\ showRawData') =>
                /\ Render(dataProp, viewMode, showRawData).content = RawContent
                /\ Render(dataProp', viewMode', showRawData').content = RawContent
          /\ (showRawData /\ ~showRawData') =>
                Render(dataProp', viewMode', showRawData').content
                    = Render(dataProp, viewMode, FALSE).content]_vars

C23_Witness ==
    /\ dataProp = FullEnvelope
    /\ LastOp = "setViewMode"
    /\ phist[Len(phist)].showRawData
    /\ phist[Len(phist)].viewMode = "summary"
    /\ viewMode = "timeline"
    /\ showRawData
    /\ Render(dataProp, viewMode, showRawData).content = RawContent

====
